---------------------------- MODULE Spec2Model ----------------------------
(***************************************************************************)
(* A model of paddlenlp/peft/reft/interventions.py: the two ReFT            *)
(* interventions LoreftIntervention and TinyIntervention, their             *)
(* construction from keyword arguments, their forward transformation, their *)
(* load_state_dict, and the lookup table intervention_mapping.              *)
(*                                                                         *)
(* Tensors hold integers.  A vector is a function on 1..n, a matrix a       *)
(* function on 1..rows whose values are vectors on 1..cols.  The hidden     *)
(* state `base` is one row vector of length embed_dim (one position of a    *)
(* batch: every operation of the file acts on the last axis alone).         *)
(***************************************************************************)
EXTENDS Integers, Sequences, FiniteSets, TLC

(***************************************************************************)
(* Bounds of the model.                                                    *)
(***************************************************************************)
\* tensor entries of the inputs lie in -MaxVal..MaxVal
MaxVal == 1
\* kwargs["embed_dim"] of every constructed intervention
EmbedDim == 3
\* kwargs["low_rank_dimension"] of every constructed intervention
LowRankDim == 2

Vals == (0 - MaxVal)..MaxVal

(***************************************************************************)
(* Tensor operations of the framework, as the source uses them.            *)
(***************************************************************************)
RECURSIVE SumTo(_, _)
\* f[1] + ... + f[k]
SumTo(f, k) == IF k = 0 THEN 0 ELSE SumTo(f, k - 1) + f[k]

Rows(M) == Len(M)
Cols(M) == Len(M[1])

\* Each operation binds its operands to their values through singleton sets
\* (xv \in {x}), so that an operand that is itself the result of an operation
\* is computed once.

\* paddle.matmul(x, M) / x @ M for a row vector x [n] and a matrix M [n, m]
matmul(x, M) ==
    CHOOSE y \in { [j \in 1..Cols(Mv) |->
                      SumTo([i \in 1..Rows(Mv) |-> xv[i] * Mv[i][j]], Rows(Mv))] :
                   xv \in {x}, Mv \in {M} } : TRUE

\* Tensor.T of a matrix
T(M) ==
    CHOOSE Z \in { [j \in 1..Cols(Mv) |-> [i \in 1..Rows(Mv) |-> Mv[i][j]]] : Mv \in {M} } : TRUE

\* paddle.diag(v) of a 1-D tensor: the square matrix with v on its diagonal
diag(v) ==
    CHOOSE Z \in { [i \in 1..Len(vv) |-> [j \in 1..Len(vv) |-> IF i = j THEN vv[i] ELSE 0]] :
                   vv \in {v} } : TRUE

\* elementwise x + y and x - y of two vectors of one length
add(x, y) ==
    CHOOSE z \in { [i \in 1..Len(xv) |-> xv[i] + yv[i]] : xv \in {x}, yv \in {y} } : TRUE
sub(x, y) ==
    CHOOSE z \in { [i \in 1..Len(xv) |-> xv[i] - yv[i]] : xv \in {x}, yv \in {y} } : TRUE

\* scalar multiple of a vector (result * self.scaling)
scale(x, c) == CHOOSE z \in { [i \in 1..Len(xv) |-> xv[i] * c] : xv \in {x} } : TRUE

(***************************************************************************)
(* Tensor.astype(dtype).  The floating-point types keep a fixed number of   *)
(* significand bits; an integer that needs more is rounded to the nearest   *)
(* representable one, ties to the even significand.                        *)
(***************************************************************************)
DTypes == {"float32", "bfloat16"}

\* 2^bits for the significand bits of the dtype: 24 (float32), 8 (bfloat16)
SignificandLimit(dtype) == IF dtype = "bfloat16" THEN 256 ELSE 16777216

RECURSIVE Ulp(_, _, _)
\* the spacing of the representable numbers around a >= 0: the least power of
\* two u, from u upwards, with a < u * limit
Ulp(a, limit, u) == IF a < u * limit THEN u ELSE Ulp(a, limit, 2 * u)

Abs(v) == IF v < 0 THEN 0 - v ELSE v

\* v rounded to the nearest value of the dtype, ties to the even significand
RoundTo(v, dtype) ==
    IF Abs(v) <= SignificandLimit(dtype) THEN v
    ELSE LET u == Ulp(Abs(v), SignificandLimit(dtype), 1)
             q == Abs(v) \div u
             r == Abs(v) % u
             m == (IF (2 * r > u) \/ (2 * r = u /\ q % 2 = 1) THEN q + 1 ELSE q) * u
         IN  IF v < 0 THEN 0 - m ELSE m

astype_vec(x, dtype) ==
    CHOOSE z \in { [i \in 1..Len(xv) |-> RoundTo(xv[i], dtype)] : xv \in {x} } : TRUE
astype_mat(M, dtype) ==
    CHOOSE Z \in { [i \in 1..Rows(Mv) |-> astype_vec(Mv[i], dtype)] : Mv \in {M} } : TRUE

(***************************************************************************)
(* Activations (lines 22-29).                                              *)
(***************************************************************************)
linear_act(x) == x

ReLU(x) ==
    CHOOSE z \in { [i \in 1..Len(xv) |-> IF xv[i] > 0 THEN xv[i] ELSE 0] : xv \in {x} } : TRUE

\* ACT2FN with "relu" bound to the identity
ACT2FN_ReluIsLinear == [k \in {"linear", "relu"} |-> "linear_act"]

\* the table ACT2FN: its keys, and the function each key names
ACT2FN == [k \in {"linear", "relu"} |-> IF k = "linear" THEN "linear_act" ELSE "ReLU"]

\* a call of the activation an intervention holds
ApplyAct(fn, x) == IF fn = "ReLU" THEN ReLU(x) ELSE linear_act(x)

(***************************************************************************)
(* nn.Dropout(p) in training: each element is zeroed where the mask drops   *)
(* it and the kept ones are scaled by 1/(1-p); p is in percent.  With p = 0 *)
(* nothing is dropped.                                                     *)
(***************************************************************************)
Dropout(p, x, mask) ==
    IF p = 0 THEN x
    ELSE CHOOSE z \in { [i \in 1..Len(xv) |->
                           IF mask[i] THEN (xv[i] * 100) \div (100 - p) ELSE 0] :
                        xv \in {x} } : TRUE

(***************************************************************************)
(* The tensors the model draws its inputs from: every multiple c * P of a   *)
(* pattern matrix P with c in Vals, and every multiple of a pattern vector. *)
(***************************************************************************)
MatPatterns == {"eye", "anti", "ones"}

PatternMat(p, rows, cols) ==
    [i \in 1..rows |-> [j \in 1..cols |->
        CASE p = "eye"  -> IF i = j THEN 1 ELSE 0
          [] p = "anti" -> IF i + j = rows + 1 THEN 1 ELSE 0
          [] OTHER      -> 1]]

Mats(rows, cols) ==
    {[i \in 1..rows |-> [j \in 1..cols |-> c * PatternMat(p, rows, cols)[i][j]]] :
        c \in Vals, p \in MatPatterns}

VecPatterns == {"ones", "first", "alt"}

PatternVec(p, n) ==
    [i \in 1..n |->
        CASE p = "first" -> IF i = 1 THEN 1 ELSE 0
          [] p = "alt"   -> IF i % 2 = 1 THEN 1 ELSE 0 - 1
          [] OTHER       -> 1]

Vecs(n) == {[i \in 1..n |-> c * PatternVec(p, n)[i]] : c \in Vals, p \in VecPatterns}

\* the multiples of the patterns with unequal entries
DiagVecs(n) == {[i \in 1..n |-> c * PatternVec(p, n)[i]] : c \in Vals, p \in {"first", "alt"}}

\* every vector of length n over Vals
AllVecs(n) == [1..n -> Vals]

\* the keep masks a dropout call draws: all kept, all dropped, the first kept
\* alone, the first dropped alone
Masks(n) ==
    { [i \in 1..n |-> TRUE], [i \in 1..n |-> FALSE],
      [i \in 1..n |-> i = 1], [i \in 1..n |-> i # 1] }

zeros_vec(n) == [i \in 1..n |-> 0]
ones_vec(n) == [i \in 1..n |-> 1]
zeros_mat(rows, cols) == [i \in 1..rows |-> zeros_vec(cols)]

\* transpose(M) * M is the identity: the columns of M are orthonormal
HasOrthonormalColumns(M) ==
    \A j, k \in 1..Cols(M) :
        SumTo([i \in 1..Rows(M) |-> M[i][j] * M[i][k]], Rows(M)) = (IF j = k THEN 1 ELSE 0)

\* nn.initializer.Orthogonal() on a [rows, cols] weight with rows >= cols
Orthogonal(rows, cols) == {M \in Mats(rows, cols) : HasOrthonormalColumns(M)}

(***************************************************************************)
(* LowRankRotateLayer (lines 33-43).  Its weight is created with the        *)
(* framework's default dtype.                                              *)
(***************************************************************************)
DefaultDType == "float32"

LowRankRotateLayer_forward(weight, x) == matmul(astype_vec(x, DefaultDType), weight)

\* nn.Linear.forward: x @ weight + bias, weight of shape [in, out]
Linear_forward(weight, bias, x) == add(matmul(x, weight), bias)

(***************************************************************************)
(* LoreftIntervention (lines 47-89).                                       *)
(***************************************************************************)
NoInstance == [cls |-> "none"]

\* __init__(**kwargs): the instance, or the error raised.  R0 and W0 are the
\* values the Orthogonal initializer draws.
LoreftIntervention_init(kw, R0, W0) ==
    IF ~ ({"embed_dim", "low_rank_dimension", "dtype"} \subseteq DOMAIN kw)
    THEN [self |-> NoInstance, raised |-> "KeyError"]
    ELSE IF ~ ("act_fn" \notin DOMAIN kw \/ kw["act_fn"] = "None")
            /\ kw["act_fn"] \notin DOMAIN ACT2FN
    THEN [self |-> NoInstance, raised |-> "KeyError"]
    ELSE [self |->
            [cls |-> "LoreftIntervention",
             rotate_layer_weight |-> R0,
             learned_source_weight |-> astype_mat(W0, kw["dtype"]),
             learned_source_bias |-> astype_vec(zeros_vec(kw["low_rank_dimension"]), kw["dtype"]),
             data_type |-> kw["dtype"],
             dropout |-> IF "dropout" \in DOMAIN kw THEN kw["dropout"] ELSE 0,
             act_fn |-> IF "act_fn" \notin DOMAIN kw \/ kw["act_fn"] = "None"
                        THEN ACT2FN["linear"] ELSE ACT2FN[kw["act_fn"]]],
          raised |-> "none"]

\* forward without the subtraction of the rotated base
LoreftIntervention_forward_NoRotate(s, base, base_dtype, mask) ==
    LET source == ApplyAct(s.act_fn,
                           Linear_forward(s.learned_source_weight, s.learned_source_bias, base))
        output == add(base, matmul(source, T(s.rotate_layer_weight)))
    IN  Dropout(s.dropout, astype_vec(output, base_dtype), mask)

\* forward that rotates the edit back with the weight of the learned source
LoreftIntervention_forward_WrongBack(s, base, base_dtype, mask) ==
    LET rotated_base == LowRankRotateLayer_forward(s.rotate_layer_weight, base)
        source == ApplyAct(s.act_fn,
                           Linear_forward(s.learned_source_weight, s.learned_source_bias, base))
        output == add(base, matmul(sub(source, rotated_base), T(s.learned_source_weight)))
    IN  Dropout(s.dropout, astype_vec(output, base_dtype), mask)

\* forward(base): base of dtype base_dtype, mask the dropout's draw
LoreftIntervention_forward(s, base, base_dtype, mask) ==
    LET rotated_base == LowRankRotateLayer_forward(s.rotate_layer_weight, base)
        source == ApplyAct(s.act_fn,
                           Linear_forward(s.learned_source_weight, s.learned_source_bias, base))
        output == add(base, matmul(sub(source, rotated_base), T(s.rotate_layer_weight)))
    IN  Dropout(s.dropout, astype_vec(output, base_dtype), mask)

\* the slice assignment replaced by an assignment of the whole weight, the
\* columns past the loaded ones zeroed
SetColumns_Whole(weight, width, value) ==
    [i \in 1..Rows(weight) |-> [j \in 1..Cols(weight) |->
        IF j <= width THEN value[i][j] ELSE 0]]

\* weight[:, :width] = value
SetColumns(weight, width, value) ==
    [i \in 1..Rows(weight) |-> [j \in 1..Cols(weight) |->
        IF j <= width THEN value[i][j] ELSE weight[i][j]]]

\* load_state_dict(state_dict): the instance afterwards and the error raised.
\* The statements run in order; a missing key raises after the earlier ones
\* have taken effect.
LoreftIntervention_load_state_dict(s, sd) ==
    IF "learned_source.weight" \notin DOMAIN sd
    THEN [self |-> s, raised |-> "KeyError"]
    ELSE LET s1 == [s EXCEPT !.learned_source_weight =
                        astype_mat(sd["learned_source.weight"], s.data_type)]
    IN  IF "learned_source.bias" \notin DOMAIN sd
        THEN [self |-> s1, raised |-> "KeyError"]
        ELSE LET s2 == [s1 EXCEPT !.learned_source_bias =
                            astype_vec(sd["learned_source.bias"], s.data_type)]
        IN  IF "rotate_layer.weight" \notin DOMAIN sd
            THEN [self |-> s2, raised |-> "KeyError"]
            ELSE LET overload_w == astype_mat(sd["rotate_layer.weight"], s.data_type)
                     overload_w_width == Cols(overload_w)
                 IN  [self |-> [s2 EXCEPT !.rotate_layer_weight =
                                   SetColumns(s.rotate_layer_weight, overload_w_width,
                                              astype_mat(overload_w, DefaultDType))],
                      raised |-> "none"]

(***************************************************************************)
(* TinyIntervention (lines 93-145).                                        *)
(***************************************************************************)
\* __init__ with param_B initialised to ones
TinyIntervention_init_OnesB(kw, A0) ==
    IF ~ ({"low_rank_dimension", "embed_dim"} \subseteq DOMAIN kw)
    THEN [self |-> NoInstance, raised |-> "KeyError"]
    ELSE [self |->
            [cls |-> "TinyIntervention",
             rank |-> kw["low_rank_dimension"],
             hidden_size |-> kw["embed_dim"],
             dropout |-> 0,
             scaling |-> 1,
             param_A |-> A0,
             param_B |-> [i \in 1..kw["low_rank_dimension"] |-> ones_vec(kw["embed_dim"])],
             param_a |-> ones_vec(kw["low_rank_dimension"]),
             param_b |-> ones_vec(kw["embed_dim"])],
          raised |-> "none"]

\* __init__ that takes the dropout probability from kwargs["dropout"]
TinyIntervention_init_KwDropout(kw, A0) ==
    IF ~ ({"low_rank_dimension", "embed_dim"} \subseteq DOMAIN kw)
    THEN [self |-> NoInstance, raised |-> "KeyError"]
    ELSE [self |->
            [cls |-> "TinyIntervention",
             rank |-> kw["low_rank_dimension"],
             hidden_size |-> kw["embed_dim"],
             dropout |-> IF "dropout" \in DOMAIN kw THEN kw["dropout"] ELSE 0,
             scaling |-> 1,
             param_A |-> A0,
             param_B |-> zeros_mat(kw["low_rank_dimension"], kw["embed_dim"]),
             param_a |-> ones_vec(kw["low_rank_dimension"]),
             param_b |-> ones_vec(kw["embed_dim"])],
          raised |-> "none"]

\* __init__(**kwargs): A0 is the value the KaimingUniform initializer draws.
\* The dropout probability is the local constant 0.0 and the parameters take
\* the layer's default dtype: kwargs["dropout"], ["act_fn"] and ["dtype"] are
\* never read.
TinyIntervention_init(kw, A0) ==
    IF ~ ({"low_rank_dimension", "embed_dim"} \subseteq DOMAIN kw)
    THEN [self |-> NoInstance, raised |-> "KeyError"]
    ELSE [self |->
            [cls |-> "TinyIntervention",
             rank |-> kw["low_rank_dimension"],
             hidden_size |-> kw["embed_dim"],
             dropout |-> 0,
             scaling |-> 1,
             param_A |-> A0,
             param_B |-> zeros_mat(kw["low_rank_dimension"], kw["embed_dim"]),
             param_a |-> ones_vec(kw["low_rank_dimension"]),
             param_b |-> ones_vec(kw["embed_dim"])],
          raised |-> "none"]

\* forward without the multiplication by diag(param_b)
TinyIntervention_forward_NoDiagB(s, base, base_dtype, mask1, mask2) ==
    LET diag_a == diag(s.param_a)
        result == scale(matmul(matmul(matmul(Dropout(s.dropout, base, mask1),
                                             s.param_A), diag_a), s.param_B),
                        s.scaling)
    IN  Dropout(s.dropout, add(base, astype_vec(result, base_dtype)), mask2)

\* forward(base): mask1 and mask2 are the draws of the two dropout calls
TinyIntervention_forward(s, base, base_dtype, mask1, mask2) ==
    LET diag_b == diag(s.param_b)
        diag_a == diag(s.param_a)
        result == scale(matmul(matmul(matmul(matmul(Dropout(s.dropout, base, mask1),
                                                    s.param_A), diag_a), s.param_B), diag_b),
                        s.scaling)
    IN  Dropout(s.dropout, add(base, astype_vec(result, base_dtype)), mask2)

\* load_state_dict without the set_value of param_B
TinyIntervention_load_state_dict_SkipB(s, sd) ==
    IF "param_A" \notin DOMAIN sd
    THEN [self |-> s, raised |-> "KeyError"]
    ELSE LET s1 == [s EXCEPT !.param_A = sd["param_A"]]
    IN  IF "param_B" \notin DOMAIN sd
        THEN [self |-> s1, raised |-> "KeyError"]
        ELSE IF "param_a" \notin DOMAIN sd
            THEN [self |-> s1, raised |-> "KeyError"]
            ELSE LET s3 == [s1 EXCEPT !.param_a = sd["param_a"]]
            IN  IF "param_b" \notin DOMAIN sd
                THEN [self |-> s3, raised |-> "KeyError"]
                ELSE [self |-> [s3 EXCEPT !.param_b = sd["param_b"]], raised |-> "none"]

\* load_state_dict that reads the four keys before it sets any parameter
TinyIntervention_load_state_dict_Atomic(s, sd) ==
    IF ~ ({"param_A", "param_B", "param_a", "param_b"} \subseteq DOMAIN sd)
    THEN [self |-> s, raised |-> "KeyError"]
    ELSE [self |-> [s EXCEPT !.param_A = sd["param_A"], !.param_B = sd["param_B"],
                             !.param_a = sd["param_a"], !.param_b = sd["param_b"]],
          raised |-> "none"]

\* load_state_dict(state_dict): four set_value calls in order
TinyIntervention_load_state_dict(s, sd) ==
    IF "param_A" \notin DOMAIN sd
    THEN [self |-> s, raised |-> "KeyError"]
    ELSE LET s1 == [s EXCEPT !.param_A = sd["param_A"]]
    IN  IF "param_B" \notin DOMAIN sd
        THEN [self |-> s1, raised |-> "KeyError"]
        ELSE LET s2 == [s1 EXCEPT !.param_B = sd["param_B"]]
        IN  IF "param_a" \notin DOMAIN sd
            THEN [self |-> s2, raised |-> "KeyError"]
            ELSE LET s3 == [s2 EXCEPT !.param_a = sd["param_a"]]
            IN  IF "param_b" \notin DOMAIN sd
                THEN [self |-> s3, raised |-> "KeyError"]
                ELSE [self |-> [s3 EXCEPT !.param_b = sd["param_b"]], raised |-> "none"]

(***************************************************************************)
(* intervention_mapping (line 148).                                        *)
(***************************************************************************)
\* the table with the two classes exchanged
intervention_mapping_Swapped ==
    [k \in {"LoreftIntervention", "TinyIntervention"} |->
        IF k = "LoreftIntervention" THEN "TinyIntervention" ELSE "LoreftIntervention"]

intervention_mapping ==
    [k \in {"LoreftIntervention", "TinyIntervention"} |-> k]

(***************************************************************************)
(* Inputs of the operations.                                               *)
(***************************************************************************)
\* the names looked up in intervention_mapping
Names == {"LoreftIntervention", "TinyIntervention", "LowRankRotateLayer", "loreft", ""}

EmptyKw == [k \in {} |-> 0]

\* keyword arguments: every key is optional, "absent" leaves it out (for
\* dropout, -1 does); act_fn = "None" is Python's None; dropout is in percent
Kwargs(embed, rank, dtype, act, dropout) ==
    (IF embed THEN "embed_dim" :> EmbedDim ELSE EmptyKw)
    @@ (IF rank THEN "low_rank_dimension" :> LowRankDim ELSE EmptyKw)
    @@ (IF dtype = "absent" THEN EmptyKw ELSE "dtype" :> dtype)
    @@ (IF act = "absent" THEN EmptyKw ELSE "act_fn" :> act)
    @@ (IF dropout < 0 THEN EmptyKw ELSE "dropout" :> dropout)

LoreftKwargs ==
    { Kwargs(TRUE, TRUE, "float32", "absent", -1),
      Kwargs(TRUE, TRUE, "float32", "None", 0),
      Kwargs(TRUE, TRUE, "float32", "linear", -1),
      Kwargs(TRUE, TRUE, "float32", "relu", -1),
      Kwargs(TRUE, TRUE, "bfloat16", "absent", 50),
      Kwargs(TRUE, TRUE, "float32", "gelu", -1),
      Kwargs(TRUE, TRUE, "float32", "ReLU", 0),
      Kwargs(TRUE, TRUE, "absent", "relu", -1) }

TinyKwargs ==
    { Kwargs(TRUE, TRUE, "absent", "absent", -1),
      Kwargs(TRUE, TRUE, "float32", "absent", 50),
      Kwargs(TRUE, TRUE, "bfloat16", "relu", -1),
      Kwargs(TRUE, TRUE, "bfloat16", "linear", 50),
      Kwargs(TRUE, FALSE, "float32", "absent", -1),
      Kwargs(FALSE, TRUE, "float32", "absent", -1) }

\* the kwargs a construction succeeds with
Constructible(kws) == {kw \in kws : {"embed_dim", "low_rank_dimension"} \subseteq DOMAIN kw}

ScaledMat(c, p, rows, cols) ==
    [i \in 1..rows |-> [j \in 1..cols |-> c * PatternMat(p, rows, cols)[i][j]]]

ScaledVec(c, p, n) == [i \in 1..n |-> c * PatternVec(p, n)[i]]

\* the pattern that goes with pattern p in a checkpoint, so that the tensors
\* of one checkpoint differ from each other
OtherPattern(p) == CASE p = "eye" -> "anti" [] p = "anti" -> "ones" [] OTHER -> "eye"
VecPatternOf(p) == CASE p = "eye" -> "first" [] p = "anti" -> "alt" [] OTHER -> "ones"

LoreftStateDict(W, b, R) ==
    ("learned_source.weight" :> W) @@ ("learned_source.bias" :> b)
    @@ ("rotate_layer.weight" :> R)

\* The checkpoints of a LoreftIntervention: for a scalar c and a pattern p,
\* learned_source.weight = c * p, the bias c * (the vector pattern of p) and a
\* rotate weight c * (the other pattern) of LowRankDim or LowRankDim - 1
\* columns (never more columns than the layer has).
LoreftStateDicts ==
    { LoreftStateDict(ScaledMat(c, p, EmbedDim, LowRankDim),
                      ScaledVec(c, VecPatternOf(p), LowRankDim),
                      ScaledMat(c, OtherPattern(p), EmbedDim, k)) :
        c \in Vals, p \in MatPatterns, k \in {LowRankDim - 1, LowRankDim} }

TinyStateDict(A, B, a, b) ==
    ("param_A" :> A) @@ ("param_B" :> B) @@ ("param_a" :> a) @@ ("param_b" :> b)

\* The checkpoints of a TinyIntervention: param_A = c * p, param_B = d * (the
\* other pattern), param_a = c * (the vector pattern of p), param_b = d * (the
\* vector pattern of the other pattern), d being an extreme value or zero.
TinyStateDicts ==
    { TinyStateDict(ScaledMat(c, p, EmbedDim, LowRankDim),
                    ScaledMat(d, OtherPattern(p), LowRankDim, EmbedDim),
                    ScaledVec(c, VecPatternOf(p), LowRankDim),
                    ScaledVec(d, VecPatternOf(OtherPattern(p)), EmbedDim)) :
        c \in Vals, d \in {0 - MaxVal, 0, MaxVal}, p \in MatPatterns }

\* the least positive integer that bfloat16 does not hold
Unrepresentable == SignificandLimit("bfloat16") + 1

\* checkpoints saved in float32 with values that bfloat16 does not hold
LoreftWideStateDicts ==
    { LoreftStateDict(ScaledMat(Unrepresentable, "eye", EmbedDim, LowRankDim),
                      ScaledVec(Unrepresentable, "first", LowRankDim),
                      ScaledMat(Unrepresentable, "anti", EmbedDim, k)) :
        k \in {LowRankDim - 1, LowRankDim} }

\* a state dict without one of its keys
Without(sd, key) == [k \in DOMAIN sd \ {key} |-> sd[k]]

\* the state dicts that lack a key: one key removed from the checkpoint of
\* scalar MaxVal and pattern "ones"
LoreftIncomplete ==
    { Without(LoreftStateDict(ScaledMat(MaxVal, "ones", EmbedDim, LowRankDim),
                              ScaledVec(MaxVal, "ones", LowRankDim),
                              ScaledMat(MaxVal, "eye", EmbedDim, LowRankDim)), key) :
        key \in {"learned_source.weight", "learned_source.bias", "rotate_layer.weight"} }

TinyIncomplete ==
    { Without(TinyStateDict(ScaledMat(MaxVal, "ones", EmbedDim, LowRankDim),
                            ScaledMat(MaxVal, "eye", LowRankDim, EmbedDim),
                            ScaledVec(MaxVal, "alt", LowRankDim),
                            ScaledVec(MaxVal, "first", EmbedDim)), key) :
        key \in {"param_A", "param_B", "param_a", "param_b"} }

\* the bases of the forward calls between loads
SomeBases == {ScaledVec(c, "ones", EmbedDim) : c \in {0 - MaxVal, 0, MaxVal}}

\* the draws of a dropout call: with p = 0 no mask is drawn
MaskChoices(p, n) == IF p = 0 THEN {[i \in 1..n |-> TRUE]} ELSE Masks(n)

\* the values the initializers draw at construction
OrthogonalWeights == Orthogonal(EmbedDim, LowRankDim)
KaimingWeights == Mats(EmbedDim, LowRankDim)

(***************************************************************************)
(* The state: the class looked up, the instance built from it, and the      *)
(* last call with its arguments and outcome.                               *)
(***************************************************************************)
VARIABLES pc, cls, self, last

vars == <<pc, cls, self, last>>

Init ==
    /\ pc = "start"
    /\ cls = "none"
    /\ self = NoInstance
    /\ last = [op |-> "import"]

\* cls = intervention_mapping[name]
Lookup ==
    /\ pc = "start"
    /\ \E name \in Names :
          IF name \in DOMAIN intervention_mapping
          THEN /\ cls' = intervention_mapping[name]
               /\ pc' = "selected"
               /\ last' = [op |-> "lookup", name |-> name, raised |-> "none"]
          ELSE /\ cls' = cls
               /\ pc' = "failed"
               /\ last' = [op |-> "lookup", name |-> name, raised |-> "KeyError"]
    /\ UNCHANGED self

\* self = LoreftIntervention(**kw)
ConstructLoreft ==
    /\ pc = "selected"
    /\ cls = "LoreftIntervention"
    /\ \E kw \in LoreftKwargs, R0 \in OrthogonalWeights, W0 \in OrthogonalWeights :
          LET r == LoreftIntervention_init(kw, R0, W0)
          IN  /\ self' = r.self
              /\ pc' = IF r.raised = "none" THEN "ready" ELSE "failed"
              /\ last' = [op |-> "__init__", kwargs |-> kw, raised |-> r.raised]
    /\ UNCHANGED cls

\* self = TinyIntervention(**kw)
ConstructTiny ==
    /\ pc = "selected"
    /\ cls = "TinyIntervention"
    /\ \E kw \in TinyKwargs, A0 \in KaimingWeights :
          LET r == TinyIntervention_init(kw, A0)
          IN  /\ self' = r.self
              /\ pc' = IF r.raised = "none" THEN "ready" ELSE "failed"
              /\ last' = [op |-> "__init__", kwargs |-> kw, raised |-> r.raised]
    /\ UNCHANGED cls

\* out = self.forward(base) on a LoreftIntervention, for a base of `bases`;
\* base has the dtype of learned_source, which it is multiplied with
LoreftForward(bases) ==
    /\ pc = "ready"
    /\ self.cls = "LoreftIntervention"
    /\ \E base \in bases :
          \E mask \in MaskChoices(self.dropout, Len(base)) :
             last' = [op |-> "forward", base |-> base,
                      out |-> LoreftIntervention_forward(self, base, self.data_type, mask)]
    /\ UNCHANGED <<pc, cls, self>>

\* self.load_state_dict(sd) on a LoreftIntervention, for a state dict of `dicts`
LoreftLoad(dicts) ==
    /\ pc = "ready"
    /\ self.cls = "LoreftIntervention"
    /\ \E sd \in dicts :
          LET r == LoreftIntervention_load_state_dict(self, sd)
          IN  /\ self' = r.self
              /\ last' = [op |-> "load_state_dict", state_dict |-> sd, raised |-> r.raised]
    /\ UNCHANGED <<pc, cls>>

\* out = self.forward(base) on a TinyIntervention, for a base of `bases`;
\* base has the dtype of the parameters, which it is multiplied with
TinyForward(bases) ==
    /\ pc = "ready"
    /\ self.cls = "TinyIntervention"
    /\ \E base \in bases :
          \E mask1, mask2 \in MaskChoices(self.dropout, Len(base)) :
             last' = [op |-> "forward", base |-> base,
                      out |-> TinyIntervention_forward(self, base, DefaultDType, mask1, mask2)]
    /\ UNCHANGED <<pc, cls, self>>

\* self.load_state_dict(sd) on a TinyIntervention, for a state dict of `dicts`
TinyLoad(dicts) ==
    /\ pc = "ready"
    /\ self.cls = "TinyIntervention"
    /\ \E sd \in dicts :
          LET r == TinyIntervention_load_state_dict(self, sd)
          IN  /\ self' = r.self
              /\ last' = [op |-> "load_state_dict", state_dict |-> sd, raised |-> r.raised]
    /\ UNCHANGED <<pc, cls>>

(***************************************************************************)
(* Spec: an intervention is looked up by name, constructed, and then        *)
(* restored from checkpoints and applied in any order.                     *)
(***************************************************************************)
LoreftLoadInputs == LoreftStateDicts \cup LoreftWideStateDicts \cup LoreftIncomplete
TinyLoadInputs == TinyStateDicts \cup TinyIncomplete

Next ==
    \/ Lookup
    \/ ConstructLoreft
    \/ ConstructTiny
    \/ LoreftForward(SomeBases)
    \/ LoreftLoad(LoreftLoadInputs)
    \/ TinyForward(SomeBases)
    \/ TinyLoad(TinyLoadInputs)

Spec == Init /\ [][Next]_vars

(***************************************************************************)
(* SpecForward: forward as a function of the parameters and of base.  An    *)
(* intervention holds any parameter values (training and load_state_dict    *)
(* set them freely); forward is called, any number of times, on one base.   *)
(***************************************************************************)
LoreftInstances ==
    { [LoreftIntervention_init(kw, R, W).self
          EXCEPT !.learned_source_bias = astype_vec(b, kw["dtype"])] :
        kw \in {k \in LoreftKwargs : /\ LoreftIntervention_init(k, <<>>, <<>>).raised = "none"
                                     /\ "dropout" \notin DOMAIN k},
        R \in Mats(EmbedDim, LowRankDim), W \in Mats(EmbedDim, LowRankDim),
        b \in Vecs(LowRankDim) }

TinyInstances ==
    { [TinyIntervention_init(Kwargs(TRUE, TRUE, "absent", "absent", -1), A).self
          EXCEPT !.param_B = B, !.param_a = a, !.param_b = b] :
        A \in Mats(EmbedDim, LowRankDim), B \in Mats(LowRankDim, EmbedDim),
        a \in DiagVecs(LowRankDim), b \in DiagVecs(EmbedDim) }

InitForward ==
    /\ pc = "ready"
    /\ cls \in DOMAIN intervention_mapping
    /\ self \in (IF cls = "LoreftIntervention" THEN LoreftInstances ELSE TinyInstances)
    /\ last \in {[op |-> "pending", base |-> base] : base \in Vecs(EmbedDim)}

NextForward ==
    \/ LoreftForward({last.base})
    \/ TinyForward({last.base})

SpecForward == InitForward /\ [][NextForward]_vars

(***************************************************************************)
(* SpecZeroB: a freshly constructed TinyIntervention, forward calls, and    *)
(* load_state_dict calls whose param_B is all zeros.                       *)
(***************************************************************************)
ZeroBStateDicts ==
    { TinyStateDict(ScaledMat(c, p, EmbedDim, LowRankDim),
                    zeros_mat(LowRankDim, EmbedDim),
                    ScaledVec(d, VecPatternOf(p), LowRankDim),
                    ScaledVec(d, VecPatternOf(OtherPattern(p)), EmbedDim)) :
        c \in Vals, d \in {0 - MaxVal, 0, MaxVal}, p \in MatPatterns }

ZeroBIncomplete ==
    { Without(TinyStateDict(ScaledMat(MaxVal, "ones", EmbedDim, LowRankDim),
                            zeros_mat(LowRankDim, EmbedDim),
                            ScaledVec(MaxVal, "alt", LowRankDim),
                            ScaledVec(MaxVal, "first", EmbedDim)), key) :
        key \in {"param_A", "param_a", "param_b"} }

ZeroBInputs == ZeroBStateDicts \cup ZeroBIncomplete

InitZeroB ==
    /\ pc = "ready"
    /\ cls = "TinyIntervention"
    /\ \E kw \in Constructible(TinyKwargs), A0 \in KaimingWeights :
          /\ self = TinyIntervention_init(kw, A0).self
          /\ last = [op |-> "__init__", kwargs |-> kw, raised |-> "none"]

NextZeroB ==
    \/ TinyLoad(ZeroBInputs)
    \/ TinyForward(Vecs(EmbedDim))

SpecZeroB == InitZeroB /\ [][NextZeroB]_vars

(***************************************************************************)
(* The claims.  The edits are written element by element, without the       *)
(* tensor operations of the model.                                         *)
(***************************************************************************)
\* x[1]*M[1][r] + ... + x[n]*M[n][r]
Project(x, M, r) == SumTo([i \in 1..Len(x) |-> x[i] * M[i][r]], Len(x))

Act1(fn, v) == IF fn = "ReLU" /\ v < 0 THEN 0 ELSE v

\* base[j] + sum over r of (act(base*W + b)[r] - (base*R)[r]) * R[j][r]
LoreftEdit(R, W, b, fn, base) ==
    [j \in 1..Len(base) |->
        base[j] + SumTo([r \in 1..Len(b) |->
                            (Act1(fn, Project(base, W, r) + b[r]) - Project(base, R, r))
                            * R[j][r]], Len(b))]

\* base[j] + b[j] * sum over r of (base*A)[r] * a[r] * B[r][j]
TinyEdit(A, B, a, b, base) ==
    [j \in 1..Len(base) |->
        base[j] + b[j] * SumTo([r \in 1..Len(a) |->
                                   Project(base, A, r) * a[r] * B[r][j]], Len(a))]

IsLoreft == pc = "ready" /\ self.cls = "LoreftIntervention"
IsTiny == pc = "ready" /\ self.cls = "TinyIntervention"
NoMask == [i \in 1..EmbedDim |-> TRUE]

\* C1: with dropout 0 and the linear activation, LoreftIntervention.forward(base)
\* is base + (base*W + b - base*R) * transpose(R), element by element, for
\* every base and every value of R, W and b.
C1_LoreftForwardIsLoReFT ==
    (IsLoreft /\ last.op = "forward" /\ self.dropout = 0 /\ self.act_fn = "linear_act")
    => last.out = [j \in 1..EmbedDim |->
                     last.base[j]
                     + SumTo([r \in 1..LowRankDim |->
                                ( Project(last.base, self.learned_source_weight, r)
                                  + self.learned_source_bias[r]
                                  - Project(last.base, self.rotate_layer_weight, r) )
                                * self.rotate_layer_weight[j][r]], LowRankDim)]

C1_Witness ==
    /\ IsLoreft /\ last.op = "forward" /\ self.dropout = 0 /\ self.act_fn = "linear_act"
    /\ last.out # last.base
    /\ self.learned_source_bias # zeros_vec(LowRankDim)
    /\ self.rotate_layer_weight # self.learned_source_weight
    /\ ~ HasOrthonormalColumns(self.rotate_layer_weight)

\* C2: TinyIntervention.forward(base)[j] is
\* base[j] + param_b[j] * sum_r (sum_i base[i]*param_A[i][r]) * param_a[r] * param_B[r][j],
\* with scaling 1, for every base and every value of the four parameters.
C2_TinyForwardIsAdditiveEdit ==
    (IsTiny /\ last.op = "forward")
    => /\ self.scaling = 1
       /\ last.out = TinyEdit(self.param_A, self.param_B, self.param_a, self.param_b,
                              last.base)

C2_Witness ==
    /\ IsTiny /\ last.op = "forward"
    /\ last.out # last.base
    /\ self.param_a # ones_vec(LowRankDim)
    /\ \E j \in 1..EmbedDim : self.param_b[j] = 0 /\ last.base[j] # 0

\* C3: intervention_mapping has exactly the keys "LoreftIntervention" and
\* "TinyIntervention"; a lookup of one of them yields the class of that name,
\* which is the class of the instance then built, and a lookup of any other
\* name raises KeyError and yields no class and no instance.
C3_LookupByName ==
    /\ DOMAIN intervention_mapping = {"LoreftIntervention", "TinyIntervention"}
    /\ last.op = "lookup" =>
          IF last.name \in {"LoreftIntervention", "TinyIntervention"}
          THEN last.raised = "none" /\ cls = last.name /\ pc = "selected"
          ELSE last.raised = "KeyError" /\ cls = "none" /\ pc = "failed"
    /\ pc = "failed" /\ last.op = "lookup" => self = NoInstance
    /\ pc = "ready" => self.cls = cls /\ cls \in {"LoreftIntervention", "TinyIntervention"}

C3_Witness ==
    last.op = "lookup" /\ last.name = "LowRankRotateLayer" /\ last.raised = "KeyError"

TinyKeys == <<"param_A", "param_B", "param_a", "param_b">>

\* a TinyIntervention built anew (any kwargs, any initial param_A) and handed
\* the four tensors of sd
FreshTinyWith(sd) ==
    [TinyIntervention_init(Kwargs(TRUE, TRUE, "absent", "absent", -1),
                           zeros_mat(EmbedDim, LowRankDim)).self
        EXCEPT !.param_A = sd["param_A"], !.param_B = sd["param_B"],
               !.param_a = sd["param_a"], !.param_b = sd["param_b"]]

\* C4: after a successful TinyIntervention.load_state_dict(sd) each of the four
\* parameters is the tensor sd gives for it, whatever the module held before
\* (the module is the one a fresh module handed these tensors would be, and
\* loading sd again changes nothing), and forward(base) is the additive edit
\* of the loaded tensors for every base.
C4_TinyLoadRestores ==
    (IsTiny /\ last.op = "load_state_dict" /\ last.raised = "none")
    => LET sd == last.state_dict
       IN  /\ \A i \in 1..4 : self[TinyKeys[i]] = sd[TinyKeys[i]]
           /\ self = FreshTinyWith(sd)
           /\ TinyIntervention_load_state_dict(self, sd) = [self |-> self, raised |-> "none"]
           /\ \A base \in AllVecs(EmbedDim) :
                 TinyIntervention_forward(self, base, DefaultDType, NoMask, NoMask)
                 = TinyEdit(sd["param_A"], sd["param_B"], sd["param_a"], sd["param_b"], base)

C4_Witness ==
    /\ IsTiny /\ last.op = "load_state_dict" /\ last.raised = "none"
    /\ self.param_B # zeros_mat(LowRankDim, EmbedDim)
    /\ self.param_a # ones_vec(LowRankDim)
    /\ self.param_a # self.param_b

\* a successful LoreftIntervention.load_state_dict(sd) across one step: the
\* tensors of the instance afterwards are those of `loaded` (keys as in sd), in
\* the first k columns for the rotate weight, k the width of the loaded one
C5_LoadStep(loaded) ==
    LET k == Len(loaded["rotate_layer.weight"][1])
    IN  /\ self'.learned_source_weight = loaded["learned_source.weight"]
        /\ self'.learned_source_bias = loaded["learned_source.bias"]
        /\ \A i \in 1..EmbedDim, j \in 1..LowRankDim :
              self'.rotate_layer_weight[i][j] =
                 IF j <= k THEN loaded["rotate_layer.weight"][i][j]
                 ELSE self.rotate_layer_weight[i][j]
        /\ k = LowRankDim => self'.rotate_layer_weight = loaded["rotate_layer.weight"]
        /\ self'.act_fn = self.act_fn /\ self'.dropout = self.dropout
        /\ self'.data_type = self.data_type

\* sd with each tensor cast to dtype, element by element
CastTo(sd, dtype) ==
    [key \in DOMAIN sd |->
        IF key = "learned_source.bias"
        THEN [r \in 1..Len(sd[key]) |-> RoundTo(sd[key][r], dtype)]
        ELSE [i \in 1..Len(sd[key]) |->
                [j \in 1..Len(sd[key][i]) |-> RoundTo(sd[key][i][j], dtype)]]]

\* C5 as claimed: a successful LoreftIntervention.load_state_dict(sd) sets
\* learned_source.weight and learned_source.bias to sd's values and the first
\* k columns of rotate_layer.weight to those of sd["rotate_layer.weight"], k
\* its width; the columns past k keep their values.
C5_AsClaimed ==
    [][(IsLoreft /\ last'.op = "load_state_dict" /\ last'.raised = "none")
       => C5_LoadStep(last'.state_dict)]_vars

\* C5, amended: a successful LoreftIntervention.load_state_dict(sd) sets
\* learned_source.weight and learned_source.bias to sd's tensors cast to the
\* dtype the intervention was built with (sd's values where that dtype holds
\* them) and overwrites the first k columns of rotate_layer.weight with the
\* cast sd["rotate_layer.weight"], k the number of its columns; the columns
\* past k keep the values they had before the call, and with
\* k = low_rank_dimension the whole rotate weight is the cast loaded one.
C5_LoreftLoadKeepsLaterColumns ==
    [][(IsLoreft /\ last'.op = "load_state_dict" /\ last'.raised = "none")
       => /\ C5_LoadStep(CastTo(last'.state_dict, self.data_type))
          /\ (\A key \in DOMAIN last'.state_dict :
                 CastTo(last'.state_dict, self.data_type)[key] = last'.state_dict[key])
             => C5_LoadStep(last'.state_dict)]_vars

C5_Witness ==
    /\ IsLoreft /\ last.op = "load_state_dict" /\ last.raised = "none"
    /\ Len(last.state_dict["rotate_layer.weight"][1]) < LowRankDim
    /\ \E i \in 1..EmbedDim : self.rotate_layer_weight[i][LowRankDim] # 0
    /\ \E i \in 1..EmbedDim : self.rotate_layer_weight[i][1] # 0
    /\ self.learned_source_weight # last.state_dict["learned_source.weight"]

\* the activation fn acts on every vector as the identity / as max(x, 0)
ActsAs(fn, kind) ==
    \A x \in AllVecs(LowRankDim) :
        ApplyAct(fn, x) = [i \in 1..LowRankDim |->
                              IF kind = "relu" /\ x[i] < 0 THEN 0 ELSE x[i]]

ConstructedLoreft ==
    /\ last.op = "__init__" /\ cls = "LoreftIntervention"
    /\ {"embed_dim", "low_rank_dimension", "dtype"} \subseteq DOMAIN last.kwargs

ActFnAbsent(kw) == "act_fn" \notin DOMAIN kw \/ kw["act_fn"] = "None"

\* the activation acts on the output of learned_source alone
ActOnSourceOnly ==
    (IsLoreft /\ last.op = "forward" /\ self.dropout = 0)
    => last.out = LoreftEdit(self.rotate_layer_weight, self.learned_source_weight,
                             self.learned_source_bias, self.act_fn, last.base)

\* C6 as claimed: act_fn absent or None gives the identity, "relu" gives ReLU,
\* and every other name makes the construction fail with KeyError.
C6_AsClaimed ==
    /\ ConstructedLoreft =>
          IF ActFnAbsent(last.kwargs)
          THEN last.raised = "none" /\ ActsAs(self.act_fn, "linear")
          ELSE IF last.kwargs["act_fn"] = "relu"
          THEN last.raised = "none" /\ ActsAs(self.act_fn, "relu")
          ELSE last.raised = "KeyError" /\ self = NoInstance /\ pc = "failed"
    /\ ActOnSourceOnly

\* C6, amended: given embed_dim, low_rank_dimension and dtype, act_fn absent,
\* None or "linear" gives the identity, "relu" gives ReLU (max(x, 0)
\* elementwise), and every name other than "linear" and "relu" makes the
\* construction fail with KeyError and leaves no intervention; forward applies
\* the activation to the output of learned_source alone, not to the rotated
\* base.
C6_ActFnFromKwargs ==
    /\ ConstructedLoreft =>
          IF ActFnAbsent(last.kwargs) \/ last.kwargs["act_fn"] = "linear"
          THEN last.raised = "none" /\ ActsAs(self.act_fn, "linear")
          ELSE IF last.kwargs["act_fn"] = "relu"
          THEN last.raised = "none" /\ ActsAs(self.act_fn, "relu")
          ELSE last.raised = "KeyError" /\ self = NoInstance /\ pc = "failed"
    /\ ActOnSourceOnly

C6_Witness ==
    /\ ConstructedLoreft
    /\ ~ ActFnAbsent(last.kwargs)
    /\ last.kwargs["act_fn"] = "linear"
    /\ last.raised = "none" /\ IsLoreft

\* the first key of TinyKeys, from position i on, that sd lacks (5: none)
RECURSIVE FirstMissing(_, _)
FirstMissing(sd, i) ==
    IF i > 4 THEN 5
    ELSE IF TinyKeys[i] \notin DOMAIN sd THEN i ELSE FirstMissing(sd, i + 1)

\* what one step does when it is a TinyIntervention.load_state_dict
C7_Step ==
    (IsTiny /\ last'.op = "load_state_dict")
    => LET sd == last'.state_dict
           m == FirstMissing(sd, 1)
       IN  /\ last'.raised = (IF m <= 4 THEN "KeyError" ELSE "none")
           /\ \A i \in 1..4 :
                 self'[TinyKeys[i]] = IF i < m THEN sd[TinyKeys[i]] ELSE self[TinyKeys[i]]

\* C7: TinyIntervention.load_state_dict sets param_A, param_B, param_a, param_b
\* in this order and is not atomic: it raises KeyError exactly when sd lacks a
\* key, and then every parameter before the first missing key holds sd's
\* tensor and the parameter of the missing key and the later ones keep their
\* previous values.
C7_TinyLoadNotAtomic == [][C7_Step]_vars

C7_Witness ==
    /\ IsTiny /\ last.op = "load_state_dict" /\ last.raised = "KeyError"
    /\ FirstMissing(last.state_dict, 1) = 3
    /\ self.param_A = last.state_dict["param_A"]
    /\ self.param_B = last.state_dict["param_B"]
    /\ self.param_a # last.state_dict["param_b"]
    /\ self.param_b # last.state_dict["param_b"]

\* C8: a freshly constructed TinyIntervention is the identity, forward(base) =
\* base for every base and every param_A, and it stays the identity after any
\* forward calls and any load_state_dict calls whose param_B is all zeros.
C8_ZeroBIsIdentity ==
    /\ IsTiny =>
          \A base \in AllVecs(EmbedDim) :
             TinyIntervention_forward(self, base, DefaultDType, NoMask, NoMask) = base
    /\ (IsTiny /\ last.op = "forward") => last.out = last.base

C8_Witness ==
    /\ IsTiny /\ last.op = "forward"
    /\ self.param_A # zeros_mat(EmbedDim, LowRankDim)
    /\ self.param_a # ones_vec(LowRankDim)
    /\ \E j \in 1..EmbedDim : self.param_b[j] < 0
    /\ last.base # zeros_vec(EmbedDim)

\* a TinyIntervention built with kwargs kw that holds the parameters of s
TinyBuiltWith(kw, s) ==
    [TinyIntervention_init(kw, s.param_A).self
        EXCEPT !.param_B = s.param_B, !.param_a = s.param_a, !.param_b = s.param_b]

\* every TinyIntervention of the same embed_dim and low_rank_dimension, built
\* with whatever "dropout", "act_fn" and "dtype", that holds the parameters of
\* self returns what self returns, for every base and every dropout draw
C10_SameOutputs ==
    IsTiny =>
       \A kw \in Constructible(TinyKwargs), base \in Vecs(EmbedDim), mask \in Masks(EmbedDim) :
          TinyIntervention_forward(TinyBuiltWith(kw, self), base, DefaultDType, mask, mask)
          = TinyIntervention_forward(self, base, DefaultDType, NoMask, NoMask)

\* a forward call changes no parameter, and returns the additive edit of the
\* parameters and of base, whatever the calls before it
C10_Step ==
    (IsTiny /\ last'.op = "forward")
    => /\ self' = self
       /\ last'.out = TinyEdit(self.param_A, self.param_B, self.param_a, self.param_b,
                               last'.base)

\* C10: the output of TinyIntervention.forward depends on base and the four
\* parameters alone: instances built with different "dropout", "act_fn" or
\* "dtype" keywords that hold equal parameters return equal outputs, and
\* repeated forward calls return the same output and change no parameter.
C10_TinyOutputDependsOnParamsOnly == [](C10_SameOutputs) /\ [][C10_Step]_vars

C10_Witness ==
    /\ IsTiny /\ last.op = "forward"
    /\ last.out # last.base
    /\ self.param_b # ones_vec(EmbedDim)

\* C9: with orthonormal columns of the rotate weight R, dropout 0 and the
\* linear activation, forward replaces the projection of base onto the columns
\* of R by the learned source, forward(base)*R = base*W + b, changes nothing
\* outside their span (the edit forward(base) - base is orthogonal to every
\* vector orthogonal to the columns of R), and forward(base) = base whenever
\* base*W + b = base*R.
C9_OrthonormalRotation ==
    ( /\ IsLoreft /\ last.op = "forward" /\ self.dropout = 0
      /\ self.act_fn = "linear_act"
      /\ HasOrthonormalColumns(self.rotate_layer_weight) )
    => LET R == self.rotate_layer_weight
           W == self.learned_source_weight
           b == self.learned_source_bias
           edit == [j \in 1..EmbedDim |-> last.out[j] - last.base[j]]
       IN  /\ \A r \in 1..LowRankDim :
                 Project(last.out, R, r) = Project(last.base, W, r) + b[r]
           /\ \A v \in AllVecs(EmbedDim) :
                 (\A r \in 1..LowRankDim : Project(v, R, r) = 0)
                 => SumTo([j \in 1..EmbedDim |-> edit[j] * v[j]], EmbedDim) = 0
           /\ (\A r \in 1..LowRankDim :
                 Project(last.base, W, r) + b[r] = Project(last.base, R, r))
              => last.out = last.base

C9_Witness ==
    /\ IsLoreft /\ last.op = "forward" /\ self.dropout = 0
    /\ self.act_fn = "linear_act"
    /\ HasOrthonormalColumns(self.rotate_layer_weight)
    /\ last.out # last.base
    /\ self.learned_source_bias # zeros_vec(LowRankDim)
    /\ self.learned_source_weight # self.rotate_layer_weight

=============================================================================
